---------------------------- MODULE Spec2Model ----------------------------
(***************************************************************************)
(* Model of fix_xcode_project.py: the patch run (main) over the project    *)
(* descriptor hamrah-ios.xcodeproj/project.pbxproj and its backup file.    *)
(*                                                                         *)
(* The descriptor text is a sequence of tokens (object IDs, keywords,      *)
(* punctuation, comments, section markers, values).  White space between   *)
(* tokens is not represented; every regular expression of the source is    *)
(* translated to the token level, keeping its character classes ([^}],     *)
(* [^{], [^)], [A-F0-9]), its greediness and re.sub's leftmost,            *)
(* non-overlapping, replace-all scan.                                      *)
(*                                                                         *)
(* Every step inside the try block of main() may raise: the copy of        *)
(* backup_project, the read, a rule, the final write (which may leave the  *)
(* file untouched, truncated or partly written).  The copy in the except   *)
(* branch is taken to succeed when the backup file exists.  Spec runs the  *)
(* script MaxRuns times, one run after the other; SpecCleanup adds a step  *)
(* outside the script that removes the backup file.                        *)
(***************************************************************************)
EXTENDS Integers, Sequences, FiniteSets, TLC

(***************************************************************************)
(* Bounds                                                                  *)
(***************************************************************************)
MaxRuns == 2        \* number of patch runs started one after the other
MaxOtherDeps == 1   \* entries the host's dependencies list may already hold

Runs == 1..MaxRuns

(***************************************************************************)
(* Object IDs the source names                                             *)
(***************************************************************************)
HOST == "3AC7BF752E4900DF00D7AA35"
DEP == "5FEXTDEP0001"
PRX == "5FEXTPRX0001"
BED == "5FEXTBED0001"
BLD == "5FEXTBLD0001"
PRD == "5FEXTPRD0001"
TGT == "5FEXTTGT0001"
DBG == "5FEXTDBG0001"
REL == "5FEXTREL0001"
GRP == "5FMAINGRP0001"
PROJ == "3AC7BF6E2E4900DF00D7AA35"

(***************************************************************************)
(* Other object IDs of the descriptors the runs start from                 *)
(***************************************************************************)
HRES == "3AC7BF742E4900DF00D7AA35"   \* host's resources phase
ERES == "5FEXTRES0001"               \* extension's resources phase
HINFO == "3AC7BFA02E4900DF00D7AA35"  \* host phase entry: Info.plist in Resources
EINFO == "5FEXTINF0001"              \* extension phase entry: Info.plist in Resources
INFOREF == "3AC7BFA12E4900DF00D7AA35"
OTHERREF == "3AC7BFA22E4900DF00D7AA35"  \* file reference outside the extension
HDBG == "3AC7BF962E4900DF00D7AA35"   \* host's Debug configuration
ELIST == "5FEXTLST0001"              \* extension's configuration list
OtherDepIds == <<"3AC7BFB12E4900DF00D7AA35", "3AC7BFB22E4900DF00D7AA35",
                 "3AC7BFB32E4900DF00D7AA35", "3AC7BFB42E4900DF00D7AA35">>

IDs == {HOST, DEP, PRX, BED, BLD, PRD, TGT, DBG, REL, GRP, PROJ,
        HRES, ERES, HINFO, EINFO, INFOREF, OTHERREF, HDBG, ELIST}
         \cup {OtherDepIds[n] : n \in 1..Len(OtherDepIds)}

(***************************************************************************)
(* Comments and section markers                                            *)
(***************************************************************************)
InfoInResources == "/* Info.plist in Resources */"
ShareExtInResources == "/* ShareExtension in Resources */"
EndBuildFile == "/* End PBXBuildFile section */"
EndProxy == "/* End PBXContainerItemProxy section */"
EndCopyFiles == "/* End PBXCopyFilesBuildPhase section */"
EndTargetDependency == "/* End PBXTargetDependency section */"

(***************************************************************************)
(* Sequence helpers                                                        *)
(***************************************************************************)
Contains(s, t) == \E i \in 1..Len(s) : s[i] = t

Count(s, t) == Cardinality({i \in 1..Len(s) : s[i] = t})

Max(S) == CHOOSE x \in S : \A y \in S : y <= x

Min(S) == CHOOSE x \in S : \A y \in S : x <= y

\* index of the first t at or after position from, 0 when there is none
FirstAt(s, from, t) ==
    LET S == {i \in from..Len(s) : s[i] = t}
    IN  IF S = {} THEN 0 ELSE Min(S)

\* s[i..j] of a position where the three tokens a b c start
Starts3(s, j, a, b, c) ==
    /\ j >= 1
    /\ j + 2 <= Len(s)
    /\ s[j] = a
    /\ s[j + 1] = b
    /\ s[j + 2] = c


(***************************************************************************)
(* Rule 1: fix_shareextension_target_settings                              *)
(***************************************************************************)
\* the canonical table; a scalar setting is one token, the list-valued
\* setting keeps its parentheses
shareext_settings ==
    << "CODE_SIGN_ENTITLEMENTS = \"ShareExtension/Sources/ShareExtension.entitlements\";",
       "CODE_SIGN_STYLE = Automatic;",
       "INFOPLIST_FILE = \"ShareExtension/Sources/Info.plist\";",
       "IPHONEOS_DEPLOYMENT_TARGET = 17.0;",
       "LD_RUNPATH_SEARCH_PATHS", "=", "(", "\"$(inherited)\"", ",",
       "\"@executable_path/Frameworks\"", ",",
       "\"@executable_path/../../Frameworks\"", ",", ")", ";",
       "PRODUCT_BUNDLE_IDENTIFIER = \"app.hamrah.ios.ShareExtension\";",
       "PRODUCT_NAME = \"$(TARGET_NAME)\";",
       "SUPPORTED_PLATFORMS = \"iphoneos iphonesimulator macosx\";" >>

debug_settings ==
    shareext_settings \o
    << "DEBUG_INFORMATION_FORMAT = dwarf;",
       "GCC_OPTIMIZATION_LEVEL = 0;",
       "SWIFT_OPTIMIZATION_LEVEL = \"-Onone\";" >>

release_settings ==
    shareext_settings \o
    << "DEBUG_INFORMATION_FORMAT = \"dwarf-with-dsym\";",
       "SWIFT_COMPILATION_MODE = wholemodule;" >>

\* a pattern whose [^}]+ were .+ : nothing stops the run over the text
SettingsStopAnyChar(s, i) == 0

\* [^}]+ after the anchor: the text the pattern may run over ends before
\* the first "}" that follows position i (0: no "}" follows)
SettingsStop(s, i) == FirstAt(s, i + 1, "}")

\* the positions j after the anchor at i where "buildSettings = {" starts
\* and that [^}]+ can reach
SettingsHeads(s, i) ==
    LET stop == SettingsStop(s, i)
        lim  == IF stop = 0 THEN Len(s) ELSE stop - 1
    IN  {j \in (i + 1)..lim : Starts3(s, j, "buildSettings", "=", "{")}

\* (ID[^}]+buildSettings\s*=\s*{)([^}]+)(};) matches at position i
SettingsMatch(s, i, id) ==
    /\ s[i] = id
    /\ SettingsHeads(s, i) # {}
    /\ LET j == Max(SettingsHeads(s, i))
           k == FirstAt(s, j + 3, "}")
       IN  /\ k # 0
           /\ k + 1 <= Len(s)
           /\ s[k + 1] = ";"

RECURSIVE SubSettings(_, _, _, _)
\* re.sub(pattern, r'\1' + settings + '\n\t\t\t' + r'\3', content), scanning
\* from position from: the leftmost match is replaced and the scan goes on
\* behind it
SubSettings(s, from, id, settings) ==
    LET M == {x \in from..Len(s) : SettingsMatch(s, x, id)}
    IN  IF M = {} THEN SubSeq(s, from, Len(s))
        ELSE LET i == Min(M)
                 j == Max(SettingsHeads(s, i))
                 k == FirstAt(s, j + 3, "}")
             IN  SubSeq(s, from, j + 2) \o settings \o << "}", ";" >>
                     \o SubSettings(s, k + 2, id, settings)

fix_shareextension_target_settings(content) ==
    SubSettings(SubSettings(content, 1, DBG, debug_settings),
                1, REL, release_settings)

(***************************************************************************)
(* Rule 2: fix_file_references                                             *)
(***************************************************************************)
\* re.sub of the three patterns on one token: a token that is an old path,
\* or that holds an old path as a substring, has that substring replaced
PathSub(tok) ==
    CASE tok = "hamrah-ios/ShareExtension/ShareViewController.swift"
           -> "ShareExtension/Sources/ShareViewController.swift"
      [] tok = "hamrah-ios/ShareExtension/Info.plist"
           -> "ShareExtension/Sources/Info.plist"
      [] tok = "hamrah-ios/ShareExtension/Utilities/ShareExtensionDataStack.swift"
           -> "ShareExtension/Sources/Utilities/ShareExtensionDataStack.swift"
      [] tok = "vendor/hamrah-ios/ShareExtension/Info.plist"
           -> "vendor/ShareExtension/Sources/Info.plist"
      [] tok = "my-hamrah-ios/ShareExtension/Info.plist"
           -> "my-ShareExtension/Sources/Info.plist"
      [] tok = "hamrah-ios/ShareExtension/Info.plist.orig"
           -> "ShareExtension/Sources/Info.plist.orig"
      [] OTHER -> tok

fix_file_references(content) ==
    [i \in 1..Len(content) |-> PathSub(content[i])]

(***************************************************************************)
(* Rule 3: add_embedded_extension                                          *)
(***************************************************************************)
\* (ID[^{]+{[^}]+key\s*=\s*\()([^)]*)\); at position i: the positions j
\* where "key = (" starts, inside the first "{" after i and before the
\* first "}" after that "{", whose list is closed by ");"
ListHeads(s, i, key) ==
    LET a == FirstAt(s, i + 1, "{")
        stop == IF a = 0 THEN 0 ELSE FirstAt(s, a + 1, "}")
        lim  == IF stop = 0 THEN Len(s) ELSE stop - 1
    IN  IF a = 0 THEN {}
        ELSE {j \in (a + 1)..lim :
                /\ Starts3(s, j, key, "=", "(")
                /\ LET k == FirstAt(s, j + 3, ")")
                   IN  k # 0 /\ k + 1 <= Len(s) /\ s[k + 1] = ";"}

ListMatch(s, i, id, key) == s[i] = id /\ ListHeads(s, i, key) # {}

\* add_dependency(match): no membership test before appending
add_dependency(group1, group2) ==
    IF group2 # << >>
    THEN group1 \o group2 \o << ",", DEP, "/* PBXTargetDependency */", ",", ")", ";" >>
    ELSE group1 \o << DEP, "/* PBXTargetDependency */", ",", ")", ";" >>

\* add_embed_phase(match)
add_embed_phase(group1, group2) ==
    IF ~Contains(group2, BED)
    THEN IF group2 # << >>
         THEN group1 \o group2 \o << ",", BED, "/* Embed App Extensions */", ",", ")", ";" >>
         ELSE group1 \o << BED, "/* Embed App Extensions */", ",", ")", ";" >>
    ELSE group1 \o group2 \o << ")", ";" >>

RECURSIVE SubDependencies(_, _)
\* re.sub(main_target_pattern, add_dependency, content, flags=re.DOTALL)
SubDependencies(s, from) ==
    LET M == {x \in from..Len(s) : ListMatch(s, x, HOST, "dependencies")}
    IN  IF M = {} THEN SubSeq(s, from, Len(s))
        ELSE LET i == Min(M)
                 j == Max(ListHeads(s, i, "dependencies"))
                 k == FirstAt(s, j + 3, ")")
             IN  SubSeq(s, from, i - 1)
                     \o add_dependency(SubSeq(s, i, j + 2), SubSeq(s, j + 3, k - 1))
                     \o SubDependencies(s, k + 2)

RECURSIVE SubBuildPhases(_, _)
\* re.sub(embed_phase_pattern, add_embed_phase, content, flags=re.DOTALL)
SubBuildPhases(s, from) ==
    LET M == {x \in from..Len(s) : ListMatch(s, x, HOST, "buildPhases")}
    IN  IF M = {} THEN SubSeq(s, from, Len(s))
        ELSE LET i == Min(M)
                 j == Max(ListHeads(s, i, "buildPhases"))
                 k == FirstAt(s, j + 3, ")")
             IN  SubSeq(s, from, i - 1)
                     \o add_embed_phase(SubSeq(s, i, j + 2), SubSeq(s, j + 3, k - 1))
                     \o SubBuildPhases(s, k + 2)

RECURSIVE InsertFrom(_, _, _, _)
InsertFrom(s, from, marker, section) ==
    LET i == FirstAt(s, from, marker)
    IN  IF i = 0 THEN SubSeq(s, from, Len(s))
        ELSE SubSeq(s, from, i - 1) \o section \o << marker >>
                 \o InsertFrom(s, i + 1, marker, section)

\* re.sub(r'(/\* End ... section \*/)', section + '\n' + r'\1', content)
InsertBefore(s, marker, section) == InsertFrom(s, 1, marker, section)

dependency_section ==
    << DEP, "/* PBXTargetDependency */", "=", "{",
       "isa", "=", "PBXTargetDependency", ";",
       "target", "=", TGT, "/* HamrahShare */", ";",
       "targetProxy", "=", PRX, "/* PBXContainerItemProxy */", ";",
       "}", ";" >>

proxy_section ==
    << PRX, "/* PBXContainerItemProxy */", "=", "{",
       "isa", "=", "PBXContainerItemProxy", ";",
       "containerPortal", "=", PROJ, "/* Project object */", ";",
       "proxyType", "=", "1", ";",
       "remoteGlobalIDString", "=", TGT, ";",
       "remoteInfo", "=", "HamrahShare", ";",
       "}", ";" >>

embed_section ==
    << BED, "/* Embed App Extensions */", "=", "{",
       "isa", "=", "PBXCopyFilesBuildPhase", ";",
       "buildActionMask", "=", "2147483647", ";",
       "dstPath", "=", "\"\"", ";",
       "dstSubfolderSpec", "=", "13", ";",
       "files", "=", "(",
       BLD, "/* HamrahShare.appex in Embed App Extensions */", ",",
       ")", ";",
       "name", "=", "\"Embed App Extensions\"", ";",
       "runOnlyForDeploymentPostprocessing", "=", "0", ";",
       "}", ";" >>

build_file_section ==
    << BLD, "/* HamrahShare.appex in Embed App Extensions */", "=", "{",
       "isa", "=", "PBXBuildFile", ";",
       "fileRef", "=", PRD, "/* HamrahShare.appex */", ";",
       "settings", "=", "{", "ATTRIBUTES", "=", "(", "RemoveHeadersOnCopy", ",", ")", ";", "}", ";",
       "}", ";" >>

\* lines 200-224: the objects behind the dependency edge
AddDependencyObjects(content) ==
    IF ~Contains(content, DEP)
    THEN LET c1 == InsertBefore(content, EndTargetDependency, dependency_section)
         IN  IF ~Contains(c1, PRX)
             THEN InsertBefore(c1, EndProxy, proxy_section)
             ELSE c1
    ELSE content

\* lines 185-224: the dependency part of add_embedded_extension
AddDependencyEdge(content) == AddDependencyObjects(SubDependencies(content, 1))

\* lines 240-268: the embed phase object and its build file
AddEmbedObjects(content) ==
    IF ~Contains(content, BED)
    THEN LET c1 == InsertBefore(content, EndCopyFiles, embed_section)
         IN  IF ~Contains(c1, BLD)
             THEN InsertBefore(c1, EndBuildFile, build_file_section)
             ELSE c1
    ELSE content

\* lines 226-268: the embed part of add_embedded_extension
AddEmbedPhase(content) == AddEmbedObjects(SubBuildPhases(content, 1))

add_embedded_extension(content) == AddEmbedPhase(AddDependencyEdge(content))

(***************************************************************************)
(* Rule 4: remove_shareextension_from_main_app_resources                   *)
(***************************************************************************)
\* what [A-F0-9]+ leaves of the token before the comment: the token without
\* its longest suffix of hexadecimal characters ("" when all of it matches)
HexHead(tok) ==
    CASE tok = ERES -> "5FEXTRES"
      [] tok = EINFO -> "5FEXTIN"
      [] tok = DEP -> "5FEXTDEP"
      [] tok = PRX -> "5FEXTPRX"
      [] tok = BED -> "5FEXT"
      [] tok = BLD -> "5FEXTBL"
      [] tok = PRD -> "5FEXTPR"
      [] tok = TGT -> "5FEXTTGT"
      [] tok = DBG -> "5FEXTDBG"
      [] tok = REL -> "5FEXTREL"
      [] tok = GRP -> "5FMAINGRP"
      [] tok = ELIST -> "5FEXTLST"
      [] OTHER -> ""

\* \s*[A-F0-9]+\s*/\*\s*<name>\s*in\s*Resources\s*\*/,?\s*\n at position i:
\* an ID, the comment, an optional comma, and the line ends there (a
\* definition goes on with " = {" on the same line)
EntryMatch(s, i, comment) ==
    /\ s[i] \in IDs
    /\ i + 1 <= Len(s)
    /\ s[i + 1] = comment
    /\ (i + 2 <= Len(s) => s[i + 2] \notin {"=", ";"})

RECURSIVE SubEntries(_, _, _)
\* re.sub(pattern, '', content)
SubEntries(s, from, comment) ==
    LET M == {x \in from..Len(s) : EntryMatch(s, x, comment)}
    IN  IF M = {} THEN SubSeq(s, from, Len(s))
        ELSE LET i == Min(M)
                 next == IF i + 2 <= Len(s) /\ s[i + 2] = "," THEN i + 3 ELSE i + 2
                 left == IF HexHead(s[i]) = "" THEN << >> ELSE << HexHead(s[i]) >>
             IN  SubSeq(s, from, i - 1) \o left \o SubEntries(s, next, comment)

remove_shareextension_from_main_app_resources(content) ==
    SubEntries(SubEntries(content, 1, InfoInResources), 1, ShareExtInResources)

(***************************************************************************)
(* Rule 5: fix_file_system_sync_groups                                     *)
(***************************************************************************)
\* 'ShareExtension' not in exceptions: a substring test on the list's text
HasShareExtension(tok) ==
    tok \in {"\"ShareExtension\"", "\"ShareExtension/Sources\"",
             "ShareExtension/Sources/Info.plist"}

\* (ID[^{]+{[^}]+exceptions\s*=\s*\([^)]*membershipExceptions\s*=\s*\()([^)]*)\);
\* the positions m where "membershipExceptions = (" starts, reached from an
\* "exceptions = (" without crossing a ")"
SyncHeads(s, i) ==
    LET a == FirstAt(s, i + 1, "{")
        stop == IF a = 0 THEN 0 ELSE FirstAt(s, a + 1, "}")
        lim  == IF stop = 0 THEN Len(s) ELSE stop - 1
    IN  IF a = 0 THEN {}
        ELSE {m \in (a + 1)..Len(s) :
                /\ Starts3(s, m, "membershipExceptions", "=", "(")
                /\ \E j \in (a + 1)..lim :
                      /\ Starts3(s, j, "exceptions", "=", "(")
                      /\ j + 3 <= m
                      /\ \A x \in (j + 3)..(m - 1) : s[x] # ")"
                /\ LET k == FirstAt(s, m + 3, ")")
                   IN  k # 0 /\ k + 1 <= Len(s) /\ s[k + 1] = ";"}

\* update_exceptions(match)
update_exceptions(group1, group2) ==
    IF ~(\E x \in 1..Len(group2) : HasShareExtension(group2[x]))
    THEN IF group2 # << >>
         THEN group1 \o group2 \o << ",", "\"ShareExtension\"", ",", ")", ";" >>
         ELSE group1 \o << "\"ShareExtension\"", ",", ")", ";" >>
    ELSE group1 \o group2 \o << ")", ";" >>

RECURSIVE SubSyncGroups(_, _)
\* re.sub(sync_group_pattern, update_exceptions, content, flags=re.DOTALL)
SubSyncGroups(s, from) ==
    LET M == {x \in from..Len(s) : s[x] = GRP /\ SyncHeads(s, x) # {}}
    IN  IF M = {} THEN SubSeq(s, from, Len(s))
        ELSE LET i == Min(M)
                 m == Max(SyncHeads(s, i))
                 k == FirstAt(s, m + 3, ")")
             IN  SubSeq(s, from, i - 1)
                     \o update_exceptions(SubSeq(s, i, m + 2), SubSeq(s, m + 3, k - 1))
                     \o SubSyncGroups(s, k + 2)

fix_file_system_sync_groups(content) == SubSyncGroups(content, 1)

(***************************************************************************)
(* The descriptors a run may start from                                    *)
(***************************************************************************)
Obj(id, comment, body) == << id, comment, "=", "{" >> \o body \o << "}", ";" >>

Isa(kind) == << "isa", "=", kind, ";" >>

List(key, entries) == << key, "=", "(" >> \o entries \o << ")", ";" >>

Entry(id, comment) == << id, comment, "," >>

If(cond, text) == IF cond THEN text ELSE << >>

RECURSIVE OtherDepEntries(_)
OtherDepEntries(n) ==
    IF n = 0 THEN << >>
    ELSE OtherDepEntries(n - 1) \o Entry(OtherDepIds[n], "/* PBXTargetDependency */")

RECURSIVE OtherDepObjects(_)
OtherDepObjects(n) ==
    IF n = 0 THEN << >>
    ELSE OtherDepObjects(n - 1)
           \o Obj(OtherDepIds[n], "/* PBXTargetDependency */",
                  Isa("PBXTargetDependency") \o << "name", "=", "KeychainAccess", ";" >>)

\* an XCBuildConfiguration object; shape "full" has a buildSettings block
Config(id, name, shape, setting) ==
    Obj(id, "/* " \o name \o " */",
        Isa("XCBuildConfiguration")
          \o If(shape = "full", << "buildSettings", "=", "{", setting, "}", ";" >>)
          \o << "name", "=", name, ";" >>)

ExtConfigs(o) ==
    If(o.cfg # "absent",
       Config(DBG, "Debug", o.cfg, "PRODUCT_NAME = HamrahShareOld;")
         \o Config(REL, "Release", o.cfg, "PRODUCT_NAME = HamrahShareOld;"))

HostConfigs == Config(HDBG, "Debug", "full", "PRODUCT_BUNDLE_IDENTIFIER = app.hamrah.ios;")

ExtConfigList(o) ==
    If(o.cfg # "absent",
       Obj(ELIST, "/* Build configuration list for PBXNativeTarget \"HamrahShare\" */",
           Isa("XCConfigurationList")
             \o List("buildConfigurations",
                     Entry(DBG, "/* Debug */") \o Entry(REL, "/* Release */"))
             \o << "defaultConfigurationName", "=", "Release", ";" >>))

\* o.wired: the extension is already wired into the host by hand, with
\* every object behind the references defined
\* a path of another file that has an old path of the extension inside it
OtherPath(kind) ==
    CASE kind = "directory" -> "vendor/hamrah-ios/ShareExtension/Info.plist"
      [] kind = "name" -> "my-hamrah-ios/ShareExtension/Info.plist"
      [] kind = "suffix" -> "hamrah-ios/ShareExtension/Info.plist.orig"
      [] OTHER -> "Info.plist"

Descriptor(o) ==
    If(o.hinfo, Obj(HINFO, InfoInResources,
                    Isa("PBXBuildFile") \o << "fileRef", "=", INFOREF, "/* Info.plist */", ";" >>))
    \o Obj(EINFO, InfoInResources,
           Isa("PBXBuildFile") \o << "fileRef", "=", INFOREF, "/* Info.plist */", ";" >>)
    \o If(o.wired, build_file_section)
    \o << EndBuildFile >>
    \o If(o.wired, proxy_section)
    \o << EndProxy >>
    \o If(o.wired, embed_section)
    \o << EndCopyFiles >>
    \o Obj(INFOREF, "/* Info.plist */",
           Isa("PBXFileReference")
             \o << "path", "=",
                   IF o.old THEN "hamrah-ios/ShareExtension/Info.plist"
                            ELSE "ShareExtension/Sources/Info.plist", ";" >>)
    \o If(o.other # "none",
          Obj(OTHERREF, "/* Info.plist */",
              Isa("PBXFileReference") \o << "path", "=", OtherPath(o.other), ";" >>))
    \o Obj(PRD, "/* HamrahShare.appex */",
           Isa("PBXFileReference") \o << "path", "=", "HamrahShare.appex", ";" >>)
    \o If(o.sync, Obj(GRP, "/* hamrah-ios */",
                      Isa("PBXFileSystemSynchronizedRootGroup")
                        \o << "exceptions", "=", "(",
                              "membershipExceptions", "=", "(", "\"Info.plist\"", ",", ")", ";",
                              ")", ";",
                              "path", "=", "\"hamrah-ios\"", ";" >>))
    \o If(o.host, Obj(HOST, "/* hamrah-ios */",
                      Isa("PBXNativeTarget")
                        \o List("buildPhases",
                                Entry(HRES, "/* Resources */")
                                  \o If(o.wired, Entry(BED, "/* Embed App Extensions */")))
                        \o List("dependencies",
                                OtherDepEntries(o.deps)
                                  \o If(o.wired, Entry(DEP, "/* PBXTargetDependency */")))
                        \o << "name", "=", "\"hamrah-ios\"", ";" >>))
    \o Obj(TGT, "/* HamrahShare */",
           Isa("PBXNativeTarget")
             \o List("buildPhases", Entry(ERES, "/* Resources */"))
             \o List("dependencies", << >>)
             \o << "name", "=", "HamrahShare", ";" >>)
    \o Obj(HRES, "/* Resources */",
           Isa("PBXResourcesBuildPhase")
             \o List("files", If(o.hinfo, Entry(HINFO, InfoInResources))))
    \o Obj(ERES, "/* Resources */",
           Isa("PBXResourcesBuildPhase")
             \o List("files", Entry(EINFO, InfoInResources)))
    \o OtherDepObjects(o.deps)
    \o If(o.wired, dependency_section)
    \o << EndTargetDependency >>
    \o (CASE o.order = 1 -> ExtConfigs(o) \o HostConfigs \o ExtConfigList(o)
          [] o.order = 2 -> HostConfigs \o ExtConfigs(o) \o ExtConfigList(o)
          [] OTHER       -> ExtConfigList(o) \o ExtConfigs(o) \o HostConfigs)

\* the host's lists vary only where there is a host; the placement and the
\* shape of the extension's configurations vary on the descriptor that has
\* the old path, the host's Info.plist entry and the synchronized group
Options ==
    {o \in [host : BOOLEAN, deps : 0..MaxOtherDeps, wired : BOOLEAN,
            cfg : {"full", "bare", "absent"}, order : 1..3,
            hinfo : BOOLEAN, sync : BOOLEAN, old : BOOLEAN,
            other : {"none", "directory", "name", "suffix"}] :
        /\ ~o.host => (o.deps = 0 /\ ~o.wired)
        /\ o.other # "none" =>
              (o.host /\ o.deps = 0 /\ ~o.wired /\ o.cfg = "full"
                /\ o.order = 1 /\ o.hinfo /\ o.sync /\ o.old)
        /\ (o.cfg # "full" \/ o.order # 1) => (o.hinfo /\ o.sync /\ o.old)}

Descriptors == {Descriptor(o) : o \in Options}

(***************************************************************************)
(* update_info_plist() of configure_share_extension.py.  The file          *)
(* ShareExtension/Sources/Info.plist is held as what plistlib.load()       *)
(* returns: a mapping from keys to values, a value written as the XML      *)
(* element plistlib.dump() gives it.  The two nested mappings are kept     *)
(* beside the top level: ext/attrs say whether the key NSExtension /       *)
(* NSExtensionAttributes is absent, holds a mapping, or holds a scalar.    *)
(***************************************************************************)
MaxUpdates == 2

EmptyMapping == [k \in {} |-> ""]

\* m[k] = v of a Python dict
Put(m, k, v) == [x \in DOMAIN m \cup {k} |-> IF x = k THEN v ELSE m[x]]

NoPlist ==
    [exists |-> FALSE, top |-> EmptyMapping,
     ext |-> "absent", extMap |-> EmptyMapping,
     attrs |-> "absent", attrsMap |-> EmptyMapping]

\* lines 164-166
SetBundleKeys(top) ==
    Put(Put(Put(top,
        "CFBundleDisplayName", "<string>Hamrah Share</string>"),
        "CFBundleVersion", "<string>1</string>"),
        "CFBundleShortVersionString", "<string>1.0</string>")

\* a mapping that is created anew even when the key is present
EnsureMappingFresh(kind, m) == EmptyMapping

\* if key not in mapping: mapping[key] = {}
EnsureMapping(kind, m) == IF kind = "absent" THEN EmptyMapping ELSE m

\* lines 173-174
SetExtensionKeys(ext) ==
    Put(Put(ext,
        "NSExtensionPointIdentifier", "<string>com.apple.share-services</string>"),
        "NSExtensionPrincipalClass",
        "<string>$(PRODUCT_MODULE_NAME).ShareViewController</string>")

\* lines 181-184
SetActivationKeys(attributes) ==
    Put(Put(Put(Put(attributes,
        "NSExtensionActivationSupportsWebURLWithMaxCount", "<integer>1</integer>"),
        "NSExtensionActivationSupportsURLWithMaxCount", "<integer>1</integer>"),
        "NSExtensionActivationSupportsText", "<true/>"),
        "NSExtensionActivationSupportsAttachmentWithMaxCount", "<integer>1</integer>")

\* item assignment on a value that is not a mapping raises TypeError, before
\* the file is opened for writing
UpdateRaises(p) == p.ext = "scalar" \/ (p.ext = "map" /\ p.attrs = "scalar")

\* the mapping that plistlib.dump() writes at lines 187-188
update_info_plist(p) ==
    [exists |-> TRUE,
     top |-> SetBundleKeys(p.top),
     ext |-> "map",
     extMap |-> SetExtensionKeys(EnsureMapping(p.ext, p.extMap)),
     attrs |-> "map",
     attrsMap |-> SetActivationKeys(EnsureMapping(p.attrs, p.attrsMap))]

\* the mappings over a subset of keys
Maps(keys, vals) == UNION {[K -> vals] : K \in SUBSET keys}

TopInputs ==
    Maps({"CFBundleDisplayName", "CFBundleIdentifier"},
         {"<string>Hamrah</string>", "<string>Hamrah Share</string>"})

ExtInputs ==
    Maps({"NSExtensionPointIdentifier", "NSExtensionMainStoryboard"},
         {"<string>MainInterface</string>"})

AttrsInputs ==
    Maps({"NSExtensionActivationSupportsText", "NSExtensionActivationRule"},
         {"<false/>"})

PlistInputs ==
    {NoPlist} \cup
    {p \in [exists : {TRUE}, top : TopInputs,
            ext : {"absent", "map", "scalar"}, extMap : ExtInputs,
            attrs : {"absent", "map", "scalar"}, attrsMap : AttrsInputs] :
        /\ p.ext # "map" => (p.extMap = EmptyMapping /\ p.attrs = "absent")
        /\ p.attrs # "map" => p.attrsMap = EmptyMapping}

\* the Info.plist of a share extension as Xcode's template creates it
TemplatePlist ==
    [exists |-> TRUE,
     top |-> [k \in {"CFBundleIdentifier"} |-> "<string>Hamrah</string>"],
     ext |-> "map",
     extMap |-> [k \in {"NSExtensionPointIdentifier", "NSExtensionMainStoryboard"}
                    |-> "<string>MainInterface</string>"],
     attrs |-> "map",
     attrsMap |-> [k \in {"NSExtensionActivationRule"} |-> "<false/>"]]

(***************************************************************************)
(* main(): the patch runs                                                  *)
(***************************************************************************)
VARIABLES
    disk,       \* text of hamrah-ios.xcodeproj/project.pbxproj
    backup,     \* project.pbxproj.backup: [exists, text]
    pc,         \* pc[r]: where run r stands in main()
    content,    \* content[r]: the local variable content of run r
    preRun,     \* preRun[r]: the descriptor on disk when run r started
    backupOk,   \* backupOk[r]: backup_project() returned in run r
    failedAt,   \* failedAt[r]: the step of run r that raised, or "none"
    restored,   \* restored[r]: what the except branch did with the backup
    result,     \* result[r]: value returned by main()
    exitCode,   \* exitCode[r]: exit status of the process, -1 while it runs
    endDisk,    \* endDisk[r]: the descriptor on disk when run r ended
    plist,      \* ShareExtension/Sources/Info.plist
    plistIn,    \* the Info.plist before update_info_plist() was first called
    plistPrev,  \* the Info.plist before the latest call
    updates,    \* number of calls of update_info_plist()
    plistResult \* what the latest call returned, "none" before the first

info == << plist, plistIn, plistPrev, updates, plistResult >>

vars == << disk, backup, pc, content, preRun, backupOk, failedAt, restored,
           result, exitCode, endDisk, info >>

RulePcs == {"settings", "paths", "embed", "resources", "sync"}

NoBackup == [exists |-> FALSE, text |-> << >>]

\* no call of update_info_plist() yet, the file holding p
PlistAt(p) ==
    /\ plist = p
    /\ plistIn = p
    /\ plistPrev = p
    /\ updates = 0
    /\ plistResult = "none"

Init ==
    /\ disk \in Descriptors
    /\ PlistAt(TemplatePlist)
    /\ backup = NoBackup
    /\ pc = [r \in Runs |-> "idle"]
    /\ content = [r \in Runs |-> << >>]
    /\ preRun = [r \in Runs |-> << >>]
    /\ backupOk = [r \in Runs |-> FALSE]
    /\ failedAt = [r \in Runs |-> "none"]
    /\ restored = [r \in Runs |-> "none"]
    /\ result = [r \in Runs |-> "running"]
    /\ exitCode = [r \in Runs |-> -1]
    /\ endDisk = [r \in Runs |-> << >>]

\* the script is started again only after the run before it has ended
MayStart(r) == pc[r] = "idle" /\ \A q \in Runs : q < r => pc[q] = "ended"

\* main() returns v; the module's last line calls main() and drops the
\* value, so the process exits with status 0
ExitStatus(v) == 0

Return(r, v, d) ==
    /\ pc' = [pc EXCEPT ![r] = "ended"]
    /\ content' = [content EXCEPT ![r] = << >>]
    /\ result' = [result EXCEPT ![r] = v]
    /\ exitCode' = [exitCode EXCEPT ![r] = ExitStatus(v)]
    /\ endDisk' = [endDisk EXCEPT ![r] = d]

Raise(r, step) ==
    /\ pc' = [pc EXCEPT ![r] = "except"]
    /\ failedAt' = [failedAt EXCEPT ![r] = step]

\* os.path.exists("hamrah-ios.xcodeproj") holds: the try block is entered
Start(r) ==
    /\ MayStart(r)
    /\ pc' = [pc EXCEPT ![r] = "backup"]
    /\ preRun' = [preRun EXCEPT ![r] = disk]
    /\ UNCHANGED << disk, backup, content, backupOk, failedAt, restored,
                    result, exitCode, endDisk, info >>

\* the script is started outside the project root: return False at once
NoProject(r) ==
    /\ MayStart(r)
    /\ preRun' = [preRun EXCEPT ![r] = disk]
    /\ Return(r, "False", disk)
    /\ UNCHANGED << disk, backup, backupOk, failedAt, restored, info >>

\* backup_project(): shutil.copy2(project_path, backup_path)
BackupProject(r) ==
    /\ pc[r] = "backup"
    /\ backup' = [exists |-> TRUE, text |-> disk]
    /\ backupOk' = [backupOk EXCEPT ![r] = TRUE]
    /\ pc' = [pc EXCEPT ![r] = "read"]
    /\ UNCHANGED << disk, content, preRun, failedAt, restored, result,
                    exitCode, endDisk, info >>

\* copy2 raises (descriptor unreadable, or backup path not writable) and
\* leaves the backup path as it was
BackupFails(r) ==
    /\ pc[r] = "backup"
    /\ Raise(r, "backup")
    /\ UNCHANGED << disk, backup, content, preRun, backupOk, restored,
                    result, exitCode, endDisk, info >>

\* read_project_file()
ReadProjectFile(r) ==
    /\ pc[r] = "read"
    /\ content' = [content EXCEPT ![r] = disk]
    /\ pc' = [pc EXCEPT ![r] = "settings"]
    /\ UNCHANGED << disk, backup, preRun, backupOk, failedAt, restored,
                    result, exitCode, endDisk, info >>

\* open() or the utf-8 decoding of read() raises
ReadFails(r) ==
    /\ pc[r] = "read"
    /\ Raise(r, "read")
    /\ UNCHANGED << disk, backup, content, preRun, backupOk, restored,
                    result, exitCode, endDisk, info >>

Rule(r, at, next, new) ==
    /\ pc[r] = at
    /\ content' = [content EXCEPT ![r] = new]
    /\ pc' = [pc EXCEPT ![r] = next]
    /\ UNCHANGED << disk, backup, preRun, backupOk, failedAt, restored,
                    result, exitCode, endDisk, info >>

FixSettings(r) ==
    Rule(r, "settings", "paths", fix_shareextension_target_settings(content[r]))

FixFileReferences(r) ==
    Rule(r, "paths", "embed", fix_file_references(content[r]))

AddEmbeddedExtension(r) ==
    Rule(r, "embed", "resources", add_embedded_extension(content[r]))

RemoveResources(r) ==
    Rule(r, "resources", "sync",
         remove_shareextension_from_main_app_resources(content[r]))

FixSyncGroups(r) ==
    Rule(r, "sync", "write", fix_file_system_sync_groups(content[r]))

\* an exception raised inside a rule (the try block catches Exception)
RuleFails(r) ==
    /\ pc[r] \in RulePcs
    /\ Raise(r, "rule")
    /\ UNCHANGED << disk, backup, content, preRun, backupOk, restored,
                    result, exitCode, endDisk, info >>

\* write_project_file(content), then return True
WriteProjectFile(r) ==
    /\ pc[r] = "write"
    /\ disk' = content[r]
    /\ Return(r, "True", content[r])
    /\ UNCHANGED << backup, preRun, backupOk, failedAt, restored, info >>

\* what a write that raises may leave in the file: open(path, 'w') failed
\* (file untouched), or the file was truncated and none or a part of the
\* text was written
TornWrites(old, new) == {old, << >>, SubSeq(new, 1, Len(new) \div 2)}

WriteFails(r) ==
    /\ pc[r] = "write"
    /\ \E d \in TornWrites(disk, content[r]) : disk' = d
    /\ Raise(r, "write")
    /\ UNCHANGED << backup, content, preRun, backupOk, restored, result,
                    exitCode, endDisk, info >>

\* an except branch that does not copy the backup back
RestoredDiskNoCopy(d, b) == d

\* the descriptor after the except branch: the backup is copied back when
\* the backup path exists
RestoredDisk(d, b) == IF b.exists THEN b.text ELSE d

\* except Exception: restore the backup if it exists, return False
Restore(r) ==
    /\ pc[r] = "except"
    /\ disk' = RestoredDisk(disk, backup)
    /\ restored' = [restored EXCEPT ![r] = IF backup.exists THEN "restored" ELSE "skipped"]
    /\ Return(r, "False", RestoredDisk(disk, backup))
    /\ UNCHANGED << backup, preRun, backupOk, failedAt, info >>

Step(r) ==
    \/ Start(r)
    \/ NoProject(r)
    \/ BackupProject(r)
    \/ BackupFails(r)
    \/ ReadProjectFile(r)
    \/ ReadFails(r)
    \/ FixSettings(r)
    \/ FixFileReferences(r)
    \/ AddEmbeddedExtension(r)
    \/ RemoveResources(r)
    \/ FixSyncGroups(r)
    \/ RuleFails(r)
    \/ WriteProjectFile(r)
    \/ WriteFails(r)
    \/ Restore(r)

Next == \E r \in Runs : Step(r)

Spec == Init /\ [][Next]_vars

\* a separate cleanup step, outside the script, removes the backup file
Cleanup ==
    /\ backup.exists
    /\ backup' = NoBackup
    /\ UNCHANGED << disk, pc, content, preRun, backupOk, failedAt, restored,
                    result, exitCode, endDisk, info >>

NextCleanup == Next \/ Cleanup

SpecCleanup == Init /\ [][NextCleanup]_vars

(***************************************************************************)
(* Runs that overlap: nothing in main() or backup_project() takes a lock,  *)
(* so the script can be started while another run is still in its try      *)
(* block, and configure_share_extension.py writes the same backup path     *)
(***************************************************************************)
\* run r holds a backup it wrote and has not ended
InRun(r) == backupOk[r] /\ pc[r] \notin {"idle", "ended"}

\* the script is started while another run stands between its backup step
\* and its end; main() enters the try block exactly as in Start
StartDuring(r) ==
    /\ pc[r] = "idle"
    /\ \E q \in Runs \ {r} : InRun(q)
    /\ pc' = [pc EXCEPT ![r] = "backup"]
    /\ preRun' = [preRun EXCEPT ![r] = disk]
    /\ UNCHANGED << disk, backup, content, backupOk, failedAt, restored,
                    result, exitCode, endDisk, info >>

\* update_project_configuration() of configure_share_extension.py: the
\* descriptor is read and written to project.pbxproj.backup; the descriptor
\* itself is left as it is
UpdateProjectConfiguration ==
    /\ backup' = [exists |-> TRUE, text |-> disk]
    /\ UNCHANGED << disk, pc, content, preRun, backupOk, failedAt, restored,
                    result, exitCode, endDisk, info >>

NextOverlap ==
    \/ Next
    \/ \E r \in Runs : StartDuring(r)
    \/ UpdateProjectConfiguration

SpecOverlap == Init /\ [][NextOverlap]_vars

(***************************************************************************)
(* configure_share_extension.py: calls of update_info_plist()              *)
(***************************************************************************)
patch == << disk, backup, pc, content, preRun, backupOk, failedAt, restored,
            result, exitCode, endDisk >>

\* the patch script has not been started
PatchIdle ==
    /\ backup = NoBackup
    /\ pc = [r \in Runs |-> "idle"]
    /\ content = [r \in Runs |-> << >>]
    /\ preRun = [r \in Runs |-> << >>]
    /\ backupOk = [r \in Runs |-> FALSE]
    /\ failedAt = [r \in Runs |-> "none"]
    /\ restored = [r \in Runs |-> "none"]
    /\ result = [r \in Runs |-> "running"]
    /\ exitCode = [r \in Runs |-> -1]
    /\ endDisk = [r \in Runs |-> << >>]

InitPlist ==
    /\ disk = Descriptor(CHOOSE o \in Options :
                              o.host /\ o.cfg = "full" /\ o.other = "none")
    /\ PatchIdle
    /\ \E p \in PlistInputs : PlistAt(p)

Called(v) ==
    /\ updates < MaxUpdates
    /\ updates' = updates + 1
    /\ plistPrev' = plist
    /\ plistResult' = v
    /\ UNCHANGED << plistIn, patch >>

\* lines 155-157: the file is not there, return False
InfoPlistMissing ==
    /\ ~plist.exists
    /\ plist' = plist
    /\ Called("False")

\* lines 160-190: load, set the keys, dump, return True
UpdateInfoPlist ==
    /\ plist.exists
    /\ ~UpdateRaises(plist)
    /\ plist' = update_info_plist(plist)
    /\ Called("True")

\* NSExtension or NSExtensionAttributes holds a scalar: TypeError leaves
\* update_info_plist() before the file is written
UpdateInfoPlistRaises ==
    /\ plist.exists
    /\ UpdateRaises(plist)
    /\ plist' = plist
    /\ Called("raised")

NextPlist ==
    \/ InfoPlistMissing
    \/ UpdateInfoPlist
    \/ UpdateInfoPlistRaises

SpecPlist == InitPlist /\ [][NextPlist]_vars

(***************************************************************************)
(* Reading a descriptor as a graph of objects: used to state the claims,   *)
(* by brace matching and not by the patterns of the rules                  *)
(***************************************************************************)
\* an object definition "ID = {" or "ID /* comment */ = {" starts at i
DefAt(s, i, id) ==
    /\ s[i] = id
    /\ \/ Starts3(s, i, id, "=", "{")
       \/ (i + 3 <= Len(s) /\ s[i + 2] = "=" /\ s[i + 3] = "{")

DefPositions(s, id) == {i \in 1..Len(s) : DefAt(s, i, id)}

DefCount(s, id) == Cardinality(DefPositions(s, id))

\* the "}" that closes the "{" at position open
CloseOf(s, open) ==
    LET Balanced(k) ==
            Cardinality({x \in (open + 1)..(k - 1) : s[x] = "{"})
              = Cardinality({x \in (open + 1)..(k - 1) : s[x] = "}"})
        C == {k \in (open + 1)..Len(s) : s[k] = "}" /\ Balanced(k)}
    IN  IF C = {} THEN Len(s) + 1 ELSE Min(C)

\* the entries of the list "key = ( ... )" of the object defined at i
FieldList(s, i, key) ==
    LET open == FirstAt(s, i + 1, "{")
        close == CloseOf(s, open)
        J == {j \in (open + 1)..(close - 1) : Starts3(s, j, key, "=", "(")}
    IN  IF J = {} THEN << >>
        ELSE LET k == FirstAt(s, Min(J) + 3, ")")
             IN  IF k = 0 THEN << >> ELSE SubSeq(s, Min(J) + 3, k - 1)

ObjectList(s, id, key) ==
    IF DefPositions(s, id) = {} THEN << >>
    ELSE FieldList(s, Min(DefPositions(s, id)), key)

HasHost(s) == DefCount(s, HOST) = 1

RefListKeys == {"dependencies", "buildPhases", "files"}

RefFields == {"target", "targetProxy", "fileRef"}

\* the positions where an object ID is used as a reference
RefPositions(s) ==
    {x \in 1..Len(s) :
        /\ s[x] \in IDs
        /\ \/ x > 2 /\ s[x - 1] = "=" /\ s[x - 2] \in RefFields
           \/ \E j \in 1..(x - 3) :
                 /\ s[j] \in RefListKeys
                 /\ s[j + 1] = "="
                 /\ s[j + 2] = "("
                 /\ \A y \in (j + 3)..x : s[y] # ")"}

Intact(s) == \A x \in RefPositions(s) : DefCount(s, s[x]) = 1

\* lines 326-338 of main(): the five rules in order
Apply(text) ==
    fix_file_system_sync_groups(
      remove_shareextension_from_main_app_resources(
        add_embedded_extension(
          fix_file_references(
            fix_shareextension_target_settings(text)))))

Succeeded(r) == pc[r] = "ended" /\ result[r] = "True"

(***************************************************************************)
(* C1  Idempotence of a whole patch run: a successful run on the output of *)
(* a successful run leaves the descriptor as the first run left it.        *)
(***************************************************************************)
C1_Idempotent ==
    \A r \in Runs :
        (r + 1 \in Runs /\ Succeeded(r) /\ Succeeded(r + 1))
            => endDisk[r + 1] = endDisk[r]

C3_RefIntegrity ==
    \A r \in Runs :
        (Succeeded(r) /\ Intact(preRun[r]) /\ HasHost(preRun[r]))
            => Intact(endDisk[r])

(***************************************************************************)
(* C4  No duplicate edges: the dependency part of add_embedded_extension   *)
(* applied twice to a descriptor with the host target and no dependency on *)
(* the extension gives one TargetDependency definition and one entry in    *)
(* the host's dependencies list.                                           *)
(***************************************************************************)
C4_NoDuplicateEdges ==
    \A r \in Runs :
        (pc[r] = "embed" /\ HasHost(content[r]) /\ ~Contains(content[r], DEP))
            => LET twice == AddDependencyEdge(AddDependencyEdge(content[r]))
               IN  /\ DefCount(twice, DEP) = 1
                   /\ Count(ObjectList(twice, HOST, "dependencies"), DEP) = 1

(***************************************************************************)
(* C5  Embed-phase scenario: from a descriptor with the host target, no    *)
(* embed phase and no dependency, a successful run leaves one embed-phase  *)
(* reference in the host's buildPhases, a defined embed phase, and in its  *)
(* files list one entry, which references a defined BuildFile object.      *)
(***************************************************************************)
C5_EmbedPhase ==
    \A r \in Runs :
        (Succeeded(r) /\ HasHost(preRun[r])
           /\ ~Contains(preRun[r], BED) /\ ~Contains(preRun[r], DEP))
            => LET t == endDisk[r]
                   files == ObjectList(t, BED, "files")
               IN  /\ Count(ObjectList(t, HOST, "buildPhases"), BED) = 1
                   /\ DefCount(t, BED) = 1
                   /\ Cardinality({x \in 1..Len(files) : files[x] \in IDs}) = 1
                   /\ Count(files, BLD) = 1
                   /\ DefCount(t, BLD) = 1

(***************************************************************************)
(* C6  The settings rewrite is scoped to the anchored objects: outside     *)
(* the buildSettings blocks of the objects defined with the IDs            *)
(* 5FEXTDBG0001 and 5FEXTREL0001 the text is unchanged.                    *)
(***************************************************************************)
\* the positions inside the buildSettings block of the object defined at i
BlockOf(s, i) ==
    LET open == FirstAt(s, i + 1, "{")
        close == CloseOf(s, open)
        J == {j \in (open + 1)..(close - 1) : Starts3(s, j, "buildSettings", "=", "{")}
    IN  IF J = {} THEN {}
        ELSE (Min(J) + 3)..(CloseOf(s, Min(J) + 2) - 1)

AnchoredBlocks(s) ==
    UNION {BlockOf(s, i) : i \in DefPositions(s, DBG) \cup DefPositions(s, REL)}

RECURSIVE Without(_, _, _)
\* s from position from on, without the positions in the set P
Without(s, from, P) ==
    LET K == {x \in from..Len(s) : x \in P}
    IN  IF K = {} THEN SubSeq(s, from, Len(s))
        ELSE LET Rest == {x \in Min(K)..Len(s) : x \notin P}
             IN  SubSeq(s, from, Min(K) - 1)
                   \o (IF Rest = {} THEN << >> ELSE Without(s, Min(Rest), P))

OutsideAnchored(s) == Without(s, 1, AnchoredBlocks(s))

\* the buildSettings block of the object with this ID
SettingsOf(s, id) ==
    IF DefPositions(s, id) = {} THEN << >>
    ELSE LET B == BlockOf(s, Min(DefPositions(s, id)))
         IN  IF B = {} THEN << >> ELSE SubSeq(s, Min(B), Max(B))

C6_SettingsScoped ==
    \A r \in Runs :
        pc[r] = "paths"
            => /\ OutsideAnchored(content[r]) = OutsideAnchored(preRun[r])
               /\ SettingsOf(content[r], HDBG) = SettingsOf(preRun[r], HDBG)

\* the rewrite has replaced the extension's Debug block while another
\* target's Debug configuration with a block of its own is in the text
C6_Witness ==
    \E r \in Runs :
        /\ pc[r] = "paths"
        /\ SettingsOf(content[r], DBG) = debug_settings
        /\ SettingsOf(preRun[r], DBG) # debug_settings
        /\ SettingsOf(preRun[r], HDBG) # << >>
        /\ SettingsOf(content[r], HDBG) = SettingsOf(preRun[r], HDBG)

(***************************************************************************)
(* C7  Backup ordering and retention: a step that changes the descriptor   *)
(* on disk is taken by a run whose backup step has written the pre-run     *)
(* descriptor to the backup file, and no step of a run removes the backup  *)
(* file.                                                                   *)
(***************************************************************************)
C7_BackupFirst ==
    [][ /\ (disk' # disk) =>
              \E r \in Runs :
                  /\ pc[r] \notin {"idle", "ended"}
                  /\ backupOk[r]
                  /\ backup = [exists |-> TRUE, text |-> preRun[r]]
        /\ backup.exists => backup'.exists ]_vars

(***************************************************************************)
(* C8  A failure of the snapshot step mutates nothing: when                *)
(* backup_project raised, the descriptor on disk at the end of the run is  *)
(* the pre-run descriptor, whatever backup file an earlier run left.       *)
(***************************************************************************)
C8_SnapshotFailureMutatesNothing ==
    \A r \in Runs :
        (pc[r] = "ended" /\ failedAt[r] = "backup")
            => endDisk[r] = preRun[r]

(***************************************************************************)
(* C9  Restore fails loudly: a run that failed after its snapshot step and *)
(* found no backup file at restore time ends with an outcome different     *)
(* from that of a failed run whose rollback succeeded.                     *)
(***************************************************************************)
Outcome(r) == << result[r], exitCode[r] >>

C9_RestoreFailsLoudly ==
    \A r, q \in Runs :
        (/\ pc[r] = "ended" /\ backupOk[r] /\ restored[r] = "skipped"
         /\ pc[q] = "ended" /\ backupOk[q] /\ restored[q] = "restored")
            => Outcome(r) # Outcome(q)

(***************************************************************************)
(* C10  Outcome reporting: a run that completes exits with status 0; a run *)
(* in which a rule fails and the rollback succeeds exits with status 2     *)
(* and leaves the pre-run descriptor.                                      *)
(***************************************************************************)
C10_ExitCodes ==
    \A r \in Runs :
        pc[r] = "ended"
            => /\ result[r] = "True" => exitCode[r] = 0
               /\ (failedAt[r] = "rule" /\ restored[r] = "restored")
                     => (exitCode[r] = 2 /\ endDisk[r] = preRun[r])


(***************************************************************************)
(* C11: patch runs exclude one another.  While a run stands between its    *)
(* backup step and its end, no other run comes to hold a backup of its own *)
(* (a run started in that interval fails before it writes the backup or    *)
(* the descriptor); the backup file holds the descriptor as it was when    *)
(* the run that holds it started; and the restore of one run never         *)
(* replaces a result that another run has written and reported as success. *)
(***************************************************************************)
C11_MutualExclusion ==
    [][/\ \A r, q \in Runs :
            (r # q /\ backupOk'[r] /\ pc'[r] \notin {"idle", "ended"})
                => ~(backupOk'[q] /\ pc'[q] \notin {"idle", "ended"})
       /\ \A r \in Runs :
            (backupOk'[r] /\ pc'[r] \notin {"idle", "ended"} /\ backup'.exists)
                => backup'.text = preRun'[r]
       /\ \A q \in Runs :
            (pc[q] = "except" /\ pc'[q] = "ended" /\ disk' # disk)
                => \A r \in Runs \ {q} :
                       ~(pc[r] = "ended" /\ result[r] = "True"
                         /\ endDisk[r] = disk)]_vars


(***************************************************************************)
(* C12: merge contract of update_info_plist.  For an Info.plist whose      *)
(* NSExtension and NSExtensionAttributes, where present, are mappings:     *)
(* after the update each of the nine override keys has its override value; *)
(* every other key that was there before, at the top level, inside         *)
(* NSExtension and inside NSExtensionAttributes, keeps its prior value;    *)
(* and a second update leaves the mapping that the first one wrote.        *)
(***************************************************************************)
TopOverrides ==
    {"CFBundleDisplayName", "CFBundleVersion", "CFBundleShortVersionString"}

ExtOverrides == {"NSExtensionPointIdentifier", "NSExtensionPrincipalClass"}

AttrsOverrides ==
    {"NSExtensionActivationSupportsWebURLWithMaxCount",
     "NSExtensionActivationSupportsURLWithMaxCount",
     "NSExtensionActivationSupportsText",
     "NSExtensionActivationSupportsAttachmentWithMaxCount"}

\* every key of before outside overrides is in after with the same value
Keeps(before, after, overrides) ==
    \A k \in DOMAIN before \ overrides :
        k \in DOMAIN after /\ after[k] = before[k]

Updated == updates >= 1 /\ plistIn.exists /\ ~UpdateRaises(plistIn)

AnchorsPresent(s) ==
    /\ DefCount(s, HOST) >= 1
    /\ DefCount(s, DBG) >= 1
    /\ DefCount(s, REL) >= 1
    /\ DefCount(s, GRP) >= 1
    /\ Contains(s, EndBuildFile)
    /\ Contains(s, EndProxy)
    /\ Contains(s, EndCopyFiles)
    /\ Contains(s, EndTargetDependency)

C13_MissingAnchorsFatal ==
    \A r \in Runs :
        (pc[r] = "ended" /\ preRun[r] # << >> /\ ~AnchorsPresent(preRun[r]))
            => /\ result[r] = "False"
               /\ (backupOk[r] => failedAt[r] # "none")
               /\ endDisk[r] = preRun[r]


(***************************************************************************)
(* C14: the path rewrite is anchored on path boundaries.  The step of      *)
(* fix_file_references changes only the tokens that are, whole, one of the *)
(* three old paths; a longer path that has an old path inside it (behind a *)
(* leading directory or leading name characters, or before trailing        *)
(* characters) and every other token are as they were.                     *)
(***************************************************************************)
OldPaths ==
    {"hamrah-ios/ShareExtension/ShareViewController.swift",
     "hamrah-ios/ShareExtension/Info.plist",
     "hamrah-ios/ShareExtension/Utilities/ShareExtensionDataStack.swift"}

C14_PathBoundaries ==
    [][\A r \in Runs :
         (pc[r] = "paths" /\ pc'[r] = "embed")
             => /\ Len(content'[r]) = Len(content[r])
                /\ \A i \in 1..Len(content[r]) :
                       content[r][i] \notin OldPaths
                           => content'[r][i] = content[r][i]]_vars


(***************************************************************************)
(* C15: the removal of resource entries is scoped to the host target.  The *)
(* step of remove_shareextension_from_main_app_resources leaves the file   *)
(* list of the extension's own resources phase as it was, leaves every     *)
(* object defined as often as before, and removes entries whole: no token  *)
(* is in the text after the step that was not in it before.                *)
(***************************************************************************)
C15_RemovalScoped ==
    [][\A r \in Runs :
         (pc[r] = "resources" /\ pc'[r] = "sync")
             => /\ ObjectList(content'[r], ERES, "files")
                     = ObjectList(content[r], ERES, "files")
                /\ \A id \in IDs :
                       DefCount(content'[r], id) = DefCount(content[r], id)
                /\ \A i \in 1..Len(content'[r]) :
                       Contains(content[r], content'[r][i])]_vars

=============================================================================
